---- MODULE Spec2Model ----
(***************************************************************************)
(* A model of osmnx/pois.py: one call of create_poi_gdf, from the tag      *)
(* filter and the search area to the returned table of POI rows.           *)
(*                                                                         *)
(* Encoding of Python values                                               *)
(*   None / an optional value : the empty tuple <<>> / the 1-tuple <<x>>   *)
(*   a tag-filter value       : [t |-> "bool"|"str"|"list"|"int", v |-> _] *)
(*   a dict with ordered keys : a sequence of <<key, value>> pairs         *)
(*   a coordinate             : an integer count of 1e-7 degrees           *)
(*   a table (GeoDataFrame)   : the set of its rows                        *)
(***************************************************************************)
EXTENDS Integers, Sequences, FiniteSets, TLC

VARIABLES
    tags,           \* argument: the tag filter
    polygon,        \* argument: None or a polygon
    north, south, east, west,   \* arguments: None or a coordinate
    overpass,       \* the elements the Overpass server holds for the area
    pc,             \* the statement create_poi_gdf is at
    exc,            \* the exception that ended the call, "none" while running
    raised_in,      \* the function that raised it
    query,          \* None, or the query create_poi_query returned
    requests,       \* number of calls of overpass_request
    responses,      \* responses['elements']
    coords,         \* parse_nodes_coords' dict, as the set of its entries
    poi_nodes,      \* dict osmid -> poi, as the set of its values
    poi_ways,       \* dict osmid -> poi, as the set of its values
    relations,      \* list of relation elements
    idx,            \* position of the running for loop
    osm_way_df,     \* parse_osm_relations' way table
    gdf_relations,  \* parse_osm_relations' relation table
    gdf             \* None, or the table create_poi_gdf returned

vars == <<tags, polygon, north, south, east, west, overpass, pc, exc, raised_in,
          query, requests, responses, coords, poi_nodes, poi_ways, relations,
          idx, osm_way_df, gdf_relations, gdf>>

None == <<>>
Some(x) == <<x>>
Get(opt) == opt[1]

-----------------------------------------------------------------------------
(* Bounds of the model *)

\* largest number of keys in a tag filter
MaxTags == 2
\* longest list value of a tag filter
MaxListLen == 2
\* number of ways the server may return
MaxWays == 2
\* number of relations the server may return
MaxRels == 2

-----------------------------------------------------------------------------
(* create_poi_query *)

\* '{:.6f}'.format(x): x, in 1e-7 degrees, rounded to a count of 1e-6 degrees
Fmt6(x) == IF x >= 0 THEN (x + 5) \div 10 ELSE -((5 - x) \div 10)

\* line 113: the bounding box literal, south,west,north,east
BboxString(n, s, e, w) == <<Fmt6(s), Fmt6(w), Fmt6(n), Fmt6(e)>>

\* TagsValid without line 96: the items of a list are not looked at
TagsValidShallow(tg) ==
    \A i \in 1..Len(tg) : tg[i][2].t \in {"bool", "str", "list"}

\* lines 86-101: is every value a bool, a str or a list of str
TagsValid(tg) ==
    \A i \in 1..Len(tg) :
        LET value == tg[i][2] IN
        \/ value.t = "bool"
        \/ value.t = "str"
        \/ value.t = "list" /\ \A j \in 1..Len(value.v) : value.v[j].t = "str"

\* lines 86-101: tags_dict, a str value wrapped into a one-element list
TagsDict(tg) ==
    [i \in 1..Len(tg) |->
        LET key == tg[i][1]
            value == tg[i][2]
        IN  IF value.t = "str"
            THEN <<key, [t |-> "list", v |-> <<value>>]>>
            ELSE <<key, value>>]

\* TagsList with one entry per key: of a list only the first item
RECURSIVE TagsListFirstItem(_)
TagsListFirstItem(td) ==
    IF td = <<>> THEN <<>>
    ELSE LET key == Head(td)[1]
             value == Head(td)[2]
         IN  (IF value.t = "bool" THEN << <<key, value>> >>
              ELSE IF value.v = <<>> THEN <<>>
              ELSE << <<key, value.v[1]>> >>)
             \o TagsListFirstItem(Tail(td))

\* lines 103-110: tags_list, one {key: value} per bool and per list item
RECURSIVE TagsList(_)
TagsList(td) ==
    IF td = <<>> THEN <<>>
    ELSE LET key == Head(td)[1]
             value == Head(td)[2]
         IN  (IF value.t = "bool"
              THEN << <<key, value>> >>
              ELSE [j \in 1..Len(value.v) |-> <<key, value.v[j]>>])
             \o TagsList(Tail(td))

\* lines 120-125: tag_str, the key alone for a bool and key=value otherwise
TagStr(d, bbox) ==
    IF d[2].t = "bool"
    THEN [key |-> d[1], value |-> None, bbox |-> bbox]
    ELSE [key |-> d[1], value |-> Some(d[2].v), bbox |-> bbox]

Kinds == <<"node", "way", "relation">>

\* lines 116-128: three components per entry of tags_list
Components(tl, bbox) ==
    [k \in 1..(3 * Len(tl)) |->
        LET tag_str == TagStr(tl[((k - 1) \div 3) + 1], bbox) IN
        [kind |-> Kinds[((k - 1) % 3) + 1], key |-> tag_str.key,
         value |-> tag_str.value, bbox |-> tag_str.bbox]]

\* lines 21-135: the exception raised, or the query
create_poi_query(n, s, e, w, tg) ==
    IF ~TagsValid(tg)
    THEN [exc |-> "TypeError", components |-> <<>>]
    ELSE [exc |-> "none",
          components |-> Components(TagsList(TagsDict(tg)), BboxString(n, s, e, w))]

-----------------------------------------------------------------------------
(* osm_poi_download *)

\* SearchArea with the two tests swapped: a full box wins over the polygon
SearchAreaBoxFirst(poly, n, s, e, w) ==
    IF ~(n = None \/ s = None \/ e = None \/ w = None)
    THEN [exc |-> "none", north |-> Get(n), south |-> Get(s),
          east |-> Get(e), west |-> Get(w)]
    ELSE IF poly # None
    THEN [exc |-> "none", north |-> Get(poly).maxy, south |-> Get(poly).miny,
          east |-> Get(poly).maxx, west |-> Get(poly).minx]
    ELSE [exc |-> "ValueError", north |-> 0, south |-> 0, east |-> 0, west |-> 0]

\* lines 188-193: the search area, or the ValueError
SearchArea(poly, n, s, e, w) ==
    IF poly # None
    THEN \* west, south, east, north = polygon.bounds
         [exc |-> "none", north |-> Get(poly).maxy, south |-> Get(poly).miny,
          east |-> Get(poly).maxx, west |-> Get(poly).minx]
    ELSE IF ~(n = None \/ s = None \/ e = None \/ w = None)
    THEN [exc |-> "none", north |-> Get(n), south |-> Get(s),
          east |-> Get(e), west |-> Get(w)]
    ELSE [exc |-> "ValueError", north |-> 0, south |-> 0, east |-> 0, west |-> 0]

Raise(e, where) ==
    /\ pc' = "raised"
    /\ exc' = e
    /\ raised_in' = where

\* lines 435-437 and 138-203: create_poi_gdf calls osm_poi_download
OsmPoiDownload ==
    /\ pc = "osm_poi_download"
    /\ LET area == SearchArea(polygon, north, south, east, west)
           q == create_poi_query(area.north, area.south, area.east, area.west, tags)
       IN  IF area.exc # "none"
           THEN /\ Raise(area.exc, "osm_poi_download")
                /\ UNCHANGED <<query, requests, responses>>
           ELSE IF q.exc # "none"
           THEN /\ Raise(q.exc, "create_poi_query")
                /\ UNCHANGED <<query, requests, responses>>
           ELSE /\ query' = Some(q.components)
                /\ requests' = requests + 1
                /\ responses' = overpass
                /\ pc' = "parse_nodes_coords"
                /\ UNCHANGED <<exc, raised_in>>
    /\ UNCHANGED <<tags, polygon, north, south, east, west, overpass, coords,
                   poi_nodes, poi_ways, relations, idx, osm_way_df,
                   gdf_relations, gdf>>

-----------------------------------------------------------------------------
(* shapely geometries: [kind, parts], parts a sequence of point sequences *)

\* Point(x, y)
Point(x, y) == [kind |-> "Point", parts |-> << << <<x, y>> >> >>]

\* Polygon(shell): no coordinate gives the empty polygon, one or two raise
Polygon(shell) ==
    IF Len(shell) = 0 THEN [exc |-> "none", geom |-> [kind |-> "Polygon", parts |-> <<>>]]
    ELSE IF Len(shell) < 3 THEN [exc |-> "ValueError", geom |-> [kind |-> "Polygon", parts |-> <<>>]]
    ELSE [exc |-> "none", geom |-> [kind |-> "Polygon", parts |-> <<shell>>]]

RECURSIVE Flatten(_)
Flatten(ss) == IF ss = <<>> THEN <<>> ELSE Head(ss) \o Flatten(Tail(ss))

\* MultiPolygon(polygons) over a list of optional geometries: a NaN entry
\* raises, empty polygons are left out
MultiPolygon(polygons) ==
    IF \E i \in 1..Len(polygons) : polygons[i] = None
    THEN [exc |-> "TypeError", geom |-> [kind |-> "MultiPolygon", parts |-> <<>>]]
    ELSE [exc |-> "none",
          geom |-> [kind |-> "MultiPolygon",
                    parts |-> Flatten([i \in 1..Len(polygons) |-> Get(polygons[i]).parts])]]

\* bool(geometry): not is_empty
Truthy(geom) == geom.parts # <<>>

\* twice the signed area of a ring, closed implicitly
RECURSIVE SumTo(_, _)
SumTo(f, n) == IF n = 0 THEN 0 ELSE f[n] + SumTo(f, n - 1)

Nxt(ring, i) == ring[(i % Len(ring)) + 1]
Cross(p, q) == p[1] * q[2] - q[1] * p[2]
Area2(ring) == SumTo([i \in 1..Len(ring) |-> Cross(ring[i], Nxt(ring, i))], Len(ring))
\* six times the first moments of a ring
Moment(ring, c) ==
    SumTo([i \in 1..Len(ring) |->
              (ring[i][c] + Nxt(ring, i)[c]) * Cross(ring[i], Nxt(ring, i))], Len(ring))
Sign(a) == IF a < 0 THEN -1 ELSE 1
Abs(a) == IF a < 0 THEN -a ELSE a

\* geometry.centroid as exact fractions <<x numerator, y numerator, denominator>>:
\* the point itself, or the area-weighted centroid of the rings (each ring
\* counted with positive area); a denominator of 0 is the empty point
Centroid(geom) ==
    IF geom.kind = "Point"
    THEN <<geom.parts[1][1][1], geom.parts[1][1][2], 1>>
    ELSE LET n == Len(geom.parts)
             ring(i) == geom.parts[i]
         IN  <<SumTo([i \in 1..n |-> Sign(Area2(ring(i))) * Moment(ring(i), 1)], n),
               SumTo([i \in 1..n |-> Sign(Area2(ring(i))) * Moment(ring(i), 2)], n),
               3 * SumTo([i \in 1..n |-> Abs(Area2(ring(i)))], n)>>

\* Within with the boundary included, as intersects is
WithinOrOnBoundary(c, poly) ==
    /\ c[3] > 0
    /\ poly.minx * c[3] <= c[1] /\ c[1] <= poly.maxx * c[3]
    /\ poly.miny * c[3] <= c[2] /\ c[2] <= poly.maxy * c[3]

\* point.within(polygon) for a rectangle: strictly inside, the boundary excluded
Within(c, poly) ==
    /\ c[3] > 0
    /\ poly.minx * c[3] < c[1] /\ c[1] < poly.maxx * c[3]
    /\ poly.miny * c[3] < c[2] /\ c[2] < poly.maxy * c[3]

-----------------------------------------------------------------------------
(* the parsers *)

IsNode(e) == e.type = "node"
HasCoords(e) == e.has_lat /\ e.has_lon
Elements(resp) == {resp[i] : i \in 1..Len(resp)}

\* lines 222-227: the dict of node coordinates, or the KeyError of a node
\* element without 'lat' or 'lon'
parse_nodes_coords(resp) ==
    IF \E e \in Elements(resp) : IsNode(e) /\ ~HasCoords(e)
    THEN [exc |-> "KeyError", coords |-> {}]
    ELSE [exc |-> "none",
          coords |-> {[id |-> e.id, lat |-> e.lat, lon |-> e.lon] :
                         e \in {x \in Elements(resp) : IsNode(x)}}]

CoordIds(cs) == {c.id : c \in cs}
CoordOf(cs, n) == CHOOSE c \in cs : c.id = n

\* a row of a table; ways and nodes are NaN (here <<>>) where they do not apply
Row(osmid, element_type, geometry, nodes, ways, tgs) ==
    [osmid |-> osmid, element_type |-> element_type, geometry |-> geometry,
     nodes |-> nodes, ways |-> ways, tags |-> tgs]

\* line 249: the Polygon of the nodes' coordinates; KeyError for a node id
\* that is not in coords, ValueError of Polygon for one or two nodes
WayPolygon(cs, nodes) ==
    IF \E i \in 1..Len(nodes) : nodes[i] \notin CoordIds(cs)
    THEN [exc |-> "KeyError", geom |-> [kind |-> "Polygon", parts |-> <<>>]]
    ELSE Polygon([i \in 1..Len(nodes) |->
                     <<CoordOf(cs, nodes[i]).lon, CoordOf(cs, nodes[i]).lat>>])

\* lines 251-258: the poi of a way and its polygon
WayPoi(response, geom) ==
    Row(response.id, "", geom, response.nodes, <<>>,
        IF response.has_tags THEN response.tags ELSE {})

\* parse_polygonal_poi without the try of line 248: the exception goes up
parse_polygonal_poi_uncaught(cs, response) ==
    IF response.type # "way" THEN [exc |-> "none", poi |-> None]
    ELSE LET p == WayPolygon(cs, response.nodes)
         IN  IF p.exc # "none" THEN [exc |-> p.exc, poi |-> None]
             ELSE [exc |-> "none", poi |-> Some(WayPoi(response, p.geom))]

\* lines 246-263: the poi of a way, or None: an exception of line 249 is caught
\* and logged at line 260
parse_polygonal_poi(cs, response) ==
    IF response.type # "way" THEN [exc |-> "none", poi |-> None]
    ELSE LET p == WayPolygon(cs, response.nodes)
         IN  IF p.exc # "none" THEN [exc |-> "none", poi |-> None]
             ELSE [exc |-> "none", poi |-> Some(WayPoi(response, p.geom))]

\* lines 280-293: the poi of a node; without 'lon' or 'lat' the except clause
\* logs and line 293 reads the unbound name poi
parse_osm_node(response) ==
    IF ~HasCoords(response)
    THEN [exc |-> "UnboundLocalError", poi |-> None]
    ELSE [exc |-> "none",
          poi |-> Some(Row(response.id, "", Point(response.lon, response.lat), <<>>, <<>>,
                           IF response.has_tags THEN response.tags ELSE {}))]

-----------------------------------------------------------------------------
(* parse_osm_relations, one relation *)

\* relation['tags']['type'], None for the KeyError of a missing key
TagsType(relation) ==
    IF relation.has_tags /\ \E tg \in relation.tags : tg[1] = "type"
    THEN Some((CHOOSE tg \in relation.tags : tg[1] = "type")[2])
    ELSE None

IsWayMember(m) == m.type = "way"

\* line 355: the refs of the members of type way, in order
MemberWayIds(relation) ==
    LET ws == SelectSeq(relation.members, IsWayMember)
    IN  [i \in 1..Len(ws) |-> ws[i].ref]

Index(df) == {r.osmid : r \in df}
Loc(df, id) == CHOOSE r \in df : r.osmid = id

\* line 357: osm_way_df.reindex(ids), None for the NaN row of a missing id
Reindex(df, ids) ==
    [i \in 1..Len(ids) |-> IF ids[i] \in Index(df) THEN Some(Loc(df, ids[i])) ELSE None]

\* member_ways['geometry'] and member_ways['nodes'], None for NaN
ColGeometry(member_ways) ==
    [i \in 1..Len(member_ways) |->
        IF member_ways[i] = None THEN None ELSE Some(Get(member_ways[i]).geometry)]
ColNodes(member_ways) ==
    [i \in 1..Len(member_ways) |->
        IF member_ways[i] = None THEN None ELSE Some(Get(member_ways[i]).nodes)]

NotNaN(x) == x # None

\* invalid_multipoly_handler without the dropna of line 317
invalid_multipoly_handler_keep_nan(member_ways) ==
    LET multipoly == MultiPolygon(ColGeometry(member_ways))
    IN  IF multipoly.exc = "none" THEN Some(multipoly.geom) ELSE None

\* lines 316-324: the MultiPolygon of the rows that have a geometry, or None
invalid_multipoly_handler(member_ways) ==
    LET gdf_clean == SelectSeq(ColGeometry(member_ways), NotNaN)
        multipoly == MultiPolygon(gdf_clean)
    IN  IF multipoly.exc = "none" THEN Some(multipoly.geom) ELSE None

\* lines 360-364: the MultiPolygon of all member geometries, the handler's retry
\* when that raises
MemberMultiPolygon(member_ways) ==
    LET multipoly == MultiPolygon(ColGeometry(member_ways))
    IN  IF multipoly.exc = "none" THEN Some(multipoly.geom)
        ELSE invalid_multipoly_handler(member_ways)

\* line 381: osm_way_df.drop(ids) raises KeyError for a label not in the index
Drop(df, ids) ==
    IF \E i \in 1..Len(ids) : ids[i] \notin Index(df)
    THEN [exc |-> "KeyError", df |-> df]
    ELSE [exc |-> "none", df |-> {r \in df : \A i \in 1..Len(ids) : r.osmid # ids[i]}]

\* lines 355-381: the pass over a multipolygon relation, from the way table df
\* and the relation table rels; columns: does df have its columns (a table made
\* of no way has none).  caught is the exception line 382 caught and logged.
ParseMultipolygon(relation, df, rels, columns) ==
    LET member_way_ids == MemberWayIds(relation)
        member_ways == Reindex(df, member_way_ids)
    IN  IF ~columns      \* line 359: member_ways['nodes']
        THEN [df |-> df, rels |-> rels, caught |-> "KeyError"]
        ELSE LET member_nodes == ColNodes(member_ways)
                 multipoly == MemberMultiPolygon(member_ways)
             IN  IF multipoly = None \/ ~Truthy(Get(multipoly))
                 THEN [df |-> df, rels |-> rels, caught |-> "none"]
                 ELSE LET geo == Row(relation.id, "relation", Get(multipoly),
                                     member_nodes, member_way_ids, relation.tags)
                          appended == rels \cup {geo}
                          dropped == Drop(df, member_way_ids)
                      IN  IF dropped.exc # "none"
                          THEN [df |-> df, rels |-> appended, caught |-> dropped.exc]
                          ELSE [df |-> dropped.df, rels |-> appended, caught |-> "none"]

\* ParseOneRelation without the test of line 353
ParseAnyRelation(relation, df, rels, columns) ==
    ParseMultipolygon(relation, df, rels, columns)

\* lines 352-383: one pass of the loop over relations; a relation without
\* tags.type raises KeyError at line 353, caught at line 382
ParseOneRelation(relation, df, rels, columns) ==
    LET type == TagsType(relation) IN
    IF type = None THEN [df |-> df, rels |-> rels, caught |-> "KeyError"]
    ELSE IF Get(type) # "multipolygon" THEN [df |-> df, rels |-> rels, caught |-> "none"]
    ELSE ParseMultipolygon(relation, df, rels, columns)

\* lines 351-387: the loop from relation i on, and the merged table
RECURSIVE RelationsLoop(_, _, _, _, _)
RelationsLoop(rels, i, df, out, columns) ==
    IF i > Len(rels) THEN df \cup out
    ELSE LET r == ParseOneRelation(rels[i], df, out, columns)
         IN  RelationsLoop(rels, i + 1, r.df, r.rels, columns)

\* lines 348-387: the table returned for the relations and the way table
parse_osm_relations(rels, df) == RelationsLoop(rels, 1, df, {}, df # {})

-----------------------------------------------------------------------------
(* create_poi_gdf *)

Frame == <<tags, polygon, north, south, east, west, overpass>>

\* line 440
ParseNodesCoords ==
    /\ pc = "parse_nodes_coords"
    /\ LET r == parse_nodes_coords(responses) IN
       IF r.exc # "none"
       THEN /\ Raise(r.exc, "parse_nodes_coords")
            /\ UNCHANGED <<coords, idx>>
       ELSE /\ coords' = r.coords
            /\ idx' = 1
            /\ pc' = "elements"
            /\ UNCHANGED <<exc, raised_in>>
    /\ UNCHANGED <<query, requests, responses, poi_nodes, poi_ways, relations,
                   osm_way_df, gdf_relations, gdf>>
    /\ UNCHANGED Frame

\* IsPoiNode without the test of 'tags' in result
IsAnyNode(result) == result.type = "node"

\* line 452: the element is a node and has the key 'tags'
IsPoiNode(result) == result.type = "node" /\ result.has_tags

\* d[key] = value on a dict held as the set of its values
Put(d, poi) == {r \in d : r.osmid # poi.osmid} \cup {poi}

\* lines 451-469: one pass of the loop over responses['elements']
ParseElement ==
    /\ pc = "elements"
    /\ idx <= Len(responses)
    /\ LET result == responses[idx] IN
       IF IsPoiNode(result)
       THEN LET r == parse_osm_node(result) IN
            IF r.exc # "none"
            THEN /\ Raise(r.exc, "parse_osm_node")
                 /\ UNCHANGED <<poi_nodes, poi_ways, relations, idx>>
            ELSE /\ poi_nodes' = Put(poi_nodes, [Get(r.poi) EXCEPT !.element_type = "node"])
                 /\ idx' = idx + 1
                 /\ UNCHANGED <<pc, exc, raised_in, poi_ways, relations>>
       ELSE IF result.type = "way"
       THEN LET r == parse_polygonal_poi(coords, result)
                poi_area == r.poi
            IN  IF r.exc # "none"
                THEN /\ Raise(r.exc, "parse_polygonal_poi")
                     /\ UNCHANGED <<poi_nodes, poi_ways, relations, idx>>
                ELSE /\ poi_ways' = IF poi_area # None
                                    THEN Put(poi_ways, [Get(poi_area) EXCEPT !.element_type = "way"])
                                    ELSE poi_ways
                     /\ idx' = idx + 1
                     /\ UNCHANGED <<pc, exc, raised_in, poi_nodes, relations>>
       ELSE IF result.type = "relation"
       THEN /\ relations' = Append(relations, result)
            /\ idx' = idx + 1
            /\ UNCHANGED <<pc, exc, raised_in, poi_nodes, poi_ways>>
       ELSE /\ idx' = idx + 1
            /\ UNCHANGED <<pc, exc, raised_in, poi_nodes, poi_ways, relations>>
    /\ UNCHANGED <<query, requests, responses, coords, osm_way_df, gdf_relations, gdf>>
    /\ UNCHANGED Frame

\* lines 471-479 and 348: the tables, and the call of parse_osm_relations
CreateFrames ==
    /\ pc = "elements"
    /\ idx > Len(responses)
    /\ osm_way_df' = poi_ways
    /\ gdf_relations' = {}
    /\ idx' = 1
    /\ pc' = "parse_osm_relations"
    /\ UNCHANGED <<exc, raised_in, query, requests, responses, coords, poi_nodes,
                   poi_ways, relations, gdf>>
    /\ UNCHANGED Frame

\* lines 351-383: one pass of the loop over relations
ParseRelation ==
    /\ pc = "parse_osm_relations"
    /\ idx <= Len(relations)
    /\ LET r == ParseOneRelation(relations[idx], osm_way_df, gdf_relations, poi_ways # {}) IN
       /\ osm_way_df' = r.df
       /\ gdf_relations' = r.rels
    /\ idx' = idx + 1
    /\ UNCHANGED <<pc, exc, raised_in, query, requests, responses, coords, poi_nodes,
                   poi_ways, relations, gdf>>
    /\ UNCHANGED Frame

\* lines 385-387: parse_osm_relations returns the merged table
ParseRelationsReturn ==
    /\ pc = "parse_osm_relations"
    /\ idx > Len(relations)
    /\ osm_way_df' = osm_way_df \cup gdf_relations
    /\ pc' = "combine"
    /\ UNCHANGED <<exc, raised_in, query, requests, responses, coords, poi_nodes,
                   poi_ways, relations, idx, gdf_relations, gdf>>
    /\ UNCHANGED Frame

\* line 485: the rows whose centroid is within the polygon
CentroidWithin(table, poly) == {r \in table : Within(Centroid(r.geometry), poly)}

\* lines 481-487: combine, filter by the polygon if one is given, return.  A
\* table without rows has no column: gdf['geometry'] raises KeyError.
CombineAndFilter ==
    /\ pc = "combine"
    /\ LET combined == poi_nodes \cup osm_way_df IN
       IF polygon # None
       THEN IF combined = {}
            THEN /\ Raise("KeyError", "create_poi_gdf")
                 /\ UNCHANGED gdf
            ELSE /\ gdf' = Some(CentroidWithin(combined, Get(polygon)))
                 /\ pc' = "returned"
                 /\ UNCHANGED <<exc, raised_in>>
       ELSE /\ gdf' = Some(combined)
            /\ pc' = "returned"
            /\ UNCHANGED <<exc, raised_in>>
    /\ UNCHANGED <<query, requests, responses, coords, poi_nodes, poi_ways, relations,
                   idx, osm_way_df, gdf_relations>>
    /\ UNCHANGED Frame

-----------------------------------------------------------------------------
(* the calls and the server data explored *)

SeqsUpTo(S, n) == UNION {[1..k -> S] : k \in 0..n}
NoRepeat(l) == \A i, j \in 1..Len(l) : i # j => l[i] # l[j]

\* the keys a filter may hold, in the dict's order
KeyPool == <<"amenity", "landuse", "highway", "shop", "leisure">>

ListItems == {[t |-> "str", v |-> "retail"], [t |-> "str", v |-> "commercial"],
              [t |-> "int", v |-> 7]}

TagValues ==
    {[t |-> "bool", v |-> TRUE], [t |-> "bool", v |-> FALSE],
     [t |-> "str", v |-> "cafe"], [t |-> "int", v |-> 7]}
    \cup {[t |-> "list", v |-> l] : l \in {x \in SeqsUpTo(ListItems, MaxListLen) : NoRepeat(x)}}

\* the dicts over the first MaxTags keys of KeyPool: each key absent or given a value
RECURSIVE FiltersFrom(_)
FiltersFrom(k) ==
    IF k > MaxTags THEN {<<>>}
    ELSE LET rest == FiltersFrom(k + 1)
         IN  rest \cup {<< <<KeyPool[k], value>> >> \o f : value \in TagValues, f \in rest}

TagFilters == FiltersFrom(1)

Rect(minx, miny, maxx, maxy) == [minx |-> minx, miny |-> miny, maxx |-> maxx, maxy |-> maxy]
Polygons == {Rect(0, 0, 40, 20), Rect(10, 4, 74, 36)}

AmenityTrue == << <<"amenity", [t |-> "bool", v |-> TRUE]>> >>
AmenitySeven == << <<"amenity", [t |-> "int", v |-> 7]>> >>

NodeIds == 1..4
NodeLon(n) == IF n % 2 = 0 THEN 60 ELSE 0
NodeLat(n) == IF n > 2 THEN 30 ELSE 0

PoiTags == {<<"amenity", "cafe">>}

NodeElement(id, has_tags, has_lat, has_lon) ==
    [type |-> "node", id |-> id, has_lat |-> has_lat, has_lon |-> has_lon,
     lat |-> NodeLat(id), lon |-> NodeLon(id), has_tags |-> has_tags,
     tags |-> IF has_tags THEN PoiTags ELSE {}, nodes |-> <<>>, members |-> <<>>]

WayElement(id, nodes) ==
    [type |-> "way", id |-> id, has_lat |-> FALSE, has_lon |-> FALSE, lat |-> 0, lon |-> 0,
     has_tags |-> (id % 2 = 1), tags |-> IF id % 2 = 1 THEN PoiTags ELSE {},
     nodes |-> nodes, members |-> <<>>]

RelationElement(id, has_tags, tgs, members) ==
    [type |-> "relation", id |-> id, has_lat |-> FALSE, has_lon |-> FALSE, lat |-> 0,
     lon |-> 0, has_tags |-> has_tags, tags |-> tgs, nodes |-> <<>>, members |-> members]

\* node lists of a way: two triangles, one of them closed explicitly, a list too
\* short for a ring, and a list with node 5, which no response holds
WayNodeLists == {<<1, 2, 3>>, <<2, 4, 3, 2>>, <<1, 2>>, <<1, 2, 3, 5>>}

\* a way of the response: None when the server returns no such way
WayChoices(id) == {None} \cup {Some(WayElement(id, nodes)) : nodes \in WayNodeLists}

\* the way id with a ring of nodes of the response
GoodWay(id) == WayElement(id, IF id % 2 = 1 THEN <<1, 2, 3>> ELSE <<2, 4, 3, 2>>)
\* the way id with a node the response lacks
BadWay(id) == WayElement(id, <<1, 2, 3, 5>>)

Present(opts) == Flatten(opts)

\* tags of a relation: a multipolygon, a route, no type
RelationTags == {<<TRUE, {<<"type", "multipolygon">>, <<"name", "x">>}>>,
                 <<TRUE, {<<"type", "route">>}>>, <<TRUE, {<<"name", "x">>}>>}

\* members of a relation: the ways of a subset of 1..MaxWays in ascending order
RECURSIVE MemberLists(_)
MemberLists(k) ==
    IF k > MaxWays THEN {<<>>}
    ELSE LET rest == MemberLists(k + 1)
         IN  rest \cup {<<[type |-> "way", ref |-> k]>> \o m : m \in rest}

AllWays == [k \in 1..MaxWays |-> [type |-> "way", ref |-> k]]

\* the relation with id 1 also has a member of type node
Members(id, ways) == (IF id = 1 THEN <<[type |-> "node", ref |-> 1]>> ELSE <<>>) \o ways

\* a multipolygon has any of the member lists; the other relations, whose members
\* the code never reads, have all ways as members
RelationChoices(id) ==
    {RelationElement(id, t[1], t[2], Members(id, m)) :
        t \in {x \in RelationTags : <<"type", "multipolygon">> \in x[2]},
        m \in MemberLists(1)}
    \cup {RelationElement(id, t[1], t[2], Members(id, AllWays)) :
        t \in {x \in RelationTags : <<"type", "multipolygon">> \notin x[2]}}

RECURSIVE RelationLists(_)
RelationLists(k) ==
    IF k > MaxRels THEN {<<>>}
    ELSE {<<>>} \cup {<<r>> \o rest : r \in RelationChoices(k), rest \in RelationLists(k + 1)}

TinyResponse == <<NodeElement(1, TRUE, TRUE, TRUE)>>

Blank ==
    /\ pc = "osm_poi_download"
    /\ exc = "none"
    /\ raised_in = "none"
    /\ query = None
    /\ requests = 0
    /\ responses = <<>>
    /\ coords = {}
    /\ poi_nodes = {}
    /\ poi_ways = {}
    /\ relations = <<>>
    /\ idx = 0
    /\ osm_way_df = {}
    /\ gdf_relations = {}
    /\ gdf = None

NoBox == north = None /\ south = None /\ east = None /\ west = None
FullBox == north = Some(36) /\ south = Some(4) /\ east = Some(74) /\ west = Some(10)

\* any tag filter, over a polygon
InitQuery ==
    /\ tags \in TagFilters
    /\ polygon = Some(Rect(10, 4, 74, 36))
    /\ NoBox
    /\ overpass = TinyResponse

\* any combination of polygon, north, south, east and west
InitArea ==
    /\ tags \in {AmenityTrue, AmenitySeven}
    /\ polygon \in {None} \cup {Some(p) : p \in Polygons}
    /\ north \in {None, Some(36)}
    /\ south \in {None, Some(4)}
    /\ east \in {None, Some(74)}
    /\ west \in {None, Some(10)}
    /\ overpass = TinyResponse

\* a multipolygon relation of way 1 alone
RelationOfWayOne ==
    RelationElement(1, TRUE, {<<"type", "multipolygon">>}, <<[type |-> "way", ref |-> 1]>>)

\* nodes 1 and 4 with or without tags, node 4 with or without lat and lon, ways,
\* and with or without the relation of way 1
InitElements ==
    /\ tags = AmenityTrue
    /\ \/ polygon = None /\ FullBox
       \/ polygon \in {Some(p) : p \in Polygons} /\ NoBox
    /\ \E tagged \in SUBSET {1, 4}, has_lat \in BOOLEAN, has_lon \in BOOLEAN,
          ways \in [1..MaxWays -> UNION {WayChoices(w) : w \in 1..MaxWays}] :
          /\ \A w \in 1..MaxWays : ways[w] \in WayChoices(w)
          /\ has_lat \/ has_lon
          /\ overpass =
                [n \in NodeIds |->
                    NodeElement(n, n \in tagged, n < 4 \/ has_lat, n < 4 \/ has_lon)]
                \o Present(ways)
                \o (IF 1 \in tagged THEN <<RelationOfWayOne>> ELSE <<>>)

\* ways, the last one with or without a node the response lacks, and relations
InitRelations ==
    /\ tags = AmenityTrue
    /\ \/ polygon = None /\ FullBox
       \/ polygon = Some(Rect(10, 4, 74, 36)) /\ NoBox
    /\ \E last \in {GoodWay(MaxWays), BadWay(MaxWays)}, rels \in RelationLists(1) :
          overpass =
                [n \in NodeIds |-> NodeElement(n, n = 4, TRUE, TRUE)]
                \o [w \in 1..MaxWays |-> IF w < MaxWays THEN GoodWay(w) ELSE last]
                \o rels

Init ==
    /\ Blank
    /\ \/ InitQuery
       \/ InitArea
       \/ InitElements
       \/ InitRelations

Next ==
    \/ OsmPoiDownload
    \/ ParseNodesCoords
    \/ ParseElement
    \/ CreateFrames
    \/ ParseRelation
    \/ ParseRelationsReturn
    \/ CombineAndFilter

Spec == Init /\ [][Next]_vars

-----------------------------------------------------------------------------
(* Properties of parse_osm_relations *)

\* parse_osm_relations has returned: osm_way_df is the table it returned
AfterRelations ==
    \/ pc \in {"combine", "returned"}
    \/ pc = "raised" /\ raised_in = "create_poi_gdf"

\* a pass of the loop over relations is about to run
AtRelation == pc = "parse_osm_relations" /\ idx <= Len(relations)

IsMultipolygon(relation) == TagsType(relation) = Some("multipolygon")

RelationRows(table, id) == {r \in table : r.element_type = "relation" /\ r.osmid = id}
WayRows(table, id) == {r \in table : r.element_type = "way" /\ r.osmid = id}

\* the ids of ids that are in the index of df, in order
PresentIn(ids, df) ==
    LET InIndex(id) == id \in Index(df) IN SelectSeq(ids, InIndex)

\* C1: for every multipolygon relation whose member ways are all in the way
\* table handed to parse_osm_relations, with a geometry, the returned table has
\* exactly one row of element type relation with the relation's id, and no way
\* row of any of its member ways.
C1_ResolvableRelationAbsorbed ==
    AfterRelations =>
        \A i \in 1..Len(relations) :
            LET relation == relations[i]
                ids == MemberWayIds(relation)
            IN  (/\ IsMultipolygon(relation)
                 /\ ids # <<>>
                 /\ \A k \in 1..Len(ids) :
                        \E w \in poi_ways : w.osmid = ids[k] /\ Truthy(w.geometry))
                => /\ Cardinality(RelationRows(osm_way_df, relation.id)) = 1
                   /\ \A k \in 1..Len(ids) : WayRows(osm_way_df, ids[k]) = {}

\* The same with the way table as it is when the relation is processed: the pass
\* adds the one row and removes the member ways.
AbsorbedWhenMembersPresent ==
    [][(/\ AtRelation
        /\ IsMultipolygon(relations[idx])
        /\ MemberWayIds(relations[idx]) # <<>>
        /\ \A k \in 1..Len(MemberWayIds(relations[idx])) :
               MemberWayIds(relations[idx])[k] \in Index(osm_way_df))
       => /\ Cardinality(RelationRows(gdf_relations', relations[idx].id)) = 1
          /\ \A k \in 1..Len(MemberWayIds(relations[idx])) :
                 MemberWayIds(relations[idx])[k] \notin Index(osm_way_df')]_vars

\* C2: a pass over a multipolygon relation with a member way id that is not in
\* the way table adds one relation row, whose MultiPolygon is made of the
\* polygons of the member ways that are in the table, in member order, when
\* there is such a member way, and adds no row when there is none; rows added
\* stay, and are in the table parse_osm_relations returns.
C2_MissingMemberDegrades ==
    [][/\ (/\ AtRelation
           /\ IsMultipolygon(relations[idx])
           /\ \E k \in 1..Len(MemberWayIds(relations[idx])) :
                  MemberWayIds(relations[idx])[k] \notin Index(osm_way_df))
          => LET relation == relations[idx]
                 present == PresentIn(MemberWayIds(relation), osm_way_df)
             IN  IF present # <<>>
                 THEN \E row \in gdf_relations' :
                        /\ row.osmid = relation.id
                        /\ row.element_type = "relation"
                        /\ row.geometry.kind = "MultiPolygon"
                        /\ row.geometry.parts =
                              [k \in 1..Len(present) |->
                                  Loc(osm_way_df, present[k]).geometry.parts[1]]
                        /\ gdf_relations' = gdf_relations \cup {row}
                        /\ row \notin gdf_relations
                 ELSE gdf_relations' = gdf_relations
       /\ pc = "parse_osm_relations" => gdf_relations \subseteq gdf_relations'
       /\ (pc = "parse_osm_relations" /\ pc' = "combine")
          => gdf_relations \subseteq osm_way_df']_vars

\* a relation with a member way that was never in the way table, and another
\* that was, has been processed and has its row
C2_Witness ==
    /\ pc = "parse_osm_relations"
    /\ idx > 1
    /\ LET relation == relations[idx - 1]
           ids == MemberWayIds(relation)
       IN  /\ IsMultipolygon(relation)
           /\ \E k \in 1..Len(ids) : ids[k] \notin Index(poi_ways)
           /\ \E k \in 1..Len(ids) : ids[k] \in Index(poi_ways)
           /\ RelationRows(gdf_relations, relation.id) # {}

\* the relations that are not multipolygons have no row in any table
NoRowOfOtherRelations ==
    \A i \in 1..Len(relations) :
        ~IsMultipolygon(relations[i])
        => /\ RelationRows(gdf_relations \cup osm_way_df, relations[i].id) = {}
           /\ gdf # None => RelationRows(Get(gdf), relations[i].id) = {}

\* C3: a pass over a relation whose tags.type is not multipolygon, or that has
\* no tags.type, leaves the way table and the relation table as they are, and
\* such a relation has no row in the table returned.
C3_OtherRelationsSkipped ==
    [][/\ (AtRelation /\ ~IsMultipolygon(relations[idx]))
          => /\ osm_way_df' = osm_way_df
             /\ gdf_relations' = gdf_relations
       /\ NoRowOfOtherRelations']_vars

\* a relation that is not a multipolygon has been processed after a
\* multipolygon was absorbed, with ways left in the way table
C3_Witness ==
    /\ pc = "parse_osm_relations"
    /\ idx > 1
    /\ ~IsMultipolygon(relations[idx - 1])
    /\ osm_way_df # {}
    /\ gdf_relations # {}

-----------------------------------------------------------------------------
(* Properties of the parsers and of create_poi_gdf *)

\* the loop over responses['elements'] has ended
AfterElements ==
    \/ pc \in {"parse_osm_relations", "combine", "returned"}
    \/ pc = "raised" /\ raised_in = "create_poi_gdf"

NodeIdsOf(resp) == {e.id : e \in {x \in Elements(resp) : IsNode(x)}}

\* a way with a node id that no node element of the response has
Dangling(e, resp) ==
    e.type = "way" /\ \E i \in 1..Len(e.nodes) : e.nodes[i] \notin NodeIdsOf(resp)

IsRelation(e) == e.type = "relation"

\* C4: parse_osm_node on a node element without lat or lon raises nothing, and
\* a call of create_poi_gdf whose response has such a node with tags does not
\* raise: the node has no row and the other elements are processed.
C4_NodeWithoutCoordsDropped ==
    \A e \in Elements(responses) :
        (IsNode(e) /\ e.has_tags /\ ~HasCoords(e))
        => /\ parse_osm_node(e).exc = "none"
           /\ pc # "raised"
           /\ AfterElements => \A r \in poi_nodes : r.osmid # e.id

\* C5: parse_polygonal_poi on a way with a node id that is not in the node index
\* returns None and raises nothing; in create_poi_gdf the way gets no row, the
\* loop over the elements does not raise, and every other element is processed:
\* each node with tags and each way with a ring of known nodes has its row, and
\* each relation is in the list of relations.
C5_DanglingWayDropped ==
    \A e \in Elements(responses) :
        Dangling(e, responses)
        => /\ parse_polygonal_poi(coords, e) = [exc |-> "none", poi |-> None]
           /\ pc = "raised" => raised_in # "parse_polygonal_poi"
           /\ AfterElements
              => /\ WayRows(poi_ways, e.id) = {}
                 /\ gdf # None => WayRows(Get(gdf), e.id) = {}
                 /\ {r.osmid : r \in poi_nodes} =
                       {x.id : x \in {y \in Elements(responses) : IsNode(y) /\ y.has_tags}}
                 /\ Index(poi_ways) =
                       {x.id : x \in {y \in Elements(responses) :
                                         /\ y.type = "way"
                                         /\ ~Dangling(y, responses)
                                         /\ Len(y.nodes) >= 3}}
                 /\ relations = SelectSeq(responses, IsRelation)

\* a call has returned rows for a response with a dangling way and another way
C5_Witness ==
    /\ pc = "returned"
    /\ \E e \in Elements(responses) : Dangling(e, responses)
    /\ poi_ways # {}
    /\ poi_nodes # {}

\* the centroid of a geometry made of a point or of triangles, computed from the
\* triangles' corners: <<x numerator, y numerator, denominator>>
CornerCentroid(geom) ==
    IF geom.kind = "Point" THEN <<geom.parts[1][1][1], geom.parts[1][1][2], 1>>
    ELSE LET n == Len(geom.parts)
             a(i) == Abs((geom.parts[i][2][1] - geom.parts[i][1][1])
                            * (geom.parts[i][3][2] - geom.parts[i][1][2])
                         - (geom.parts[i][3][1] - geom.parts[i][1][1])
                            * (geom.parts[i][2][2] - geom.parts[i][1][2]))
             sum(i, c) == geom.parts[i][1][c] + geom.parts[i][2][c] + geom.parts[i][3][c]
         IN  <<SumTo([i \in 1..n |-> a(i) * sum(i, 1)], n),
               SumTo([i \in 1..n |-> a(i) * sum(i, 2)], n),
               3 * SumTo([i \in 1..n |-> a(i)], n)>>

StrictlyInside(geom, poly) ==
    LET c == CornerCentroid(geom) IN
    /\ poly.minx * c[3] < c[1] /\ c[1] < poly.maxx * c[3]
    /\ poly.miny * c[3] < c[2] /\ c[2] < poly.maxy * c[3]

\* C10: the table returned is, with a polygon, the rows of the combined node,
\* way and relation table whose centroid is strictly inside the polygon, and
\* without one, the combined table.
C10_CentroidFilter ==
    pc = "returned" =>
        LET combined == poi_nodes \cup osm_way_df IN
        /\ gdf # None
        /\ polygon # None
           => Get(gdf) = {r \in combined : StrictlyInside(r.geometry, Get(polygon))}
        /\ polygon = None => Get(gdf) = combined

\* a call with a polygon has returned some rows and dropped others, a relation
\* row among the rows of the combined table
C10_Witness ==
    /\ pc = "returned"
    /\ polygon # None
    /\ Get(gdf) # {}
    /\ Get(gdf) # poi_nodes \cup osm_way_df
    /\ \E r \in osm_way_df : r.element_type = "relation"
    /\ \E r \in poi_nodes \cup osm_way_df : r.element_type = "node"

-----------------------------------------------------------------------------
(* Properties of create_poi_query and osm_poi_download *)

Called == pc # "osm_poi_download"

\* a value that is no bool, no str and no list of str
InvalidValue(value) ==
    \/ value.t \notin {"bool", "str", "list"}
    \/ value.t = "list" /\ \E j \in 1..Len(value.v) : value.v[j].t # "str"

InvalidFilter(tg) == \E i \in 1..Len(tg) : InvalidValue(tg[i][2])

\* the number of (key, value-or-wildcard) pairs of one value
Pairs(value) == IF value.t = "list" THEN Len(value.v) ELSE 1

PairCount(tg) == SumTo([i \in 1..Len(tg) |-> Pairs(tg[i][2])], Len(tg))

\* the k-th (key, value-or-wildcard) pair of a filter, the wildcard being None
RECURSIVE PairAt(_, _)
PairAt(tg, k) ==
    LET key == Head(tg)[1]
        value == Head(tg)[2]
    IN  IF k > Pairs(value) THEN PairAt(Tail(tg), k - Pairs(value))
        ELSE IF value.t = "bool" THEN <<key, None>>
        ELSE IF value.t = "str" THEN <<key, Some(value.v)>>
        ELSE <<key, Some(value.v[k].v)>>

\* C6: the query of a valid filter has three clauses per (key, value-or-wildcard)
\* pair, for the pairs in order: a node, a way and a relation clause of that
\* pair; and all clauses hold the same bounding box string.
C6_ThreeClausesPerPair ==
    query # None =>
        LET q == Get(query)
            N == PairCount(tags)
        IN  /\ Len(q) = 3 * N
            /\ \A k \in 1..N :
                   /\ q[3 * k - 2].kind = "node"
                   /\ q[3 * k - 1].kind = "way"
                   /\ q[3 * k].kind = "relation"
                   /\ \A c \in {3 * k - 2, 3 * k - 1, 3 * k} :
                          <<q[c].key, q[c].value>> = PairAt(tags, k)
            /\ \A c, d \in 1..Len(q) : q[c].bbox = q[d].bbox

\* a query was built from a filter of two keys, one of them with a list of two
C6_Witness ==
    /\ query # None
    /\ Len(tags) >= 2
    /\ \E i \in 1..Len(tags) : tags[i][2].t = "list" /\ Len(tags[i][2].v) >= 2
    /\ \E i \in 1..Len(tags) : tags[i][2].t = "bool"
    /\ requests = 1

\* C7: a filter with a value that is no bool, no str and no list of str makes
\* create_poi_query raise TypeError, and ends the call: no request is made, no
\* query and no table is returned, and the exception is that TypeError whenever
\* the search area is given.
C7_InvalidFilterAborts ==
    InvalidFilter(tags) =>
        /\ create_poi_query(36, 4, 74, 10, tags).exc = "TypeError"
        /\ requests = 0
        /\ query = None
        /\ gdf = None
        /\ Called =>
              /\ pc = "raised"
              /\ exc \in {"TypeError", "ValueError"}
              /\ (polygon # None \/ (north # None /\ south # None /\ east # None /\ west # None))
                 => exc = "TypeError" /\ raised_in = "create_poi_query"

\* a call with a list holding a value that is no str has raised
C7_Witness ==
    /\ pc = "raised"
    /\ exc = "TypeError"
    /\ \E i \in 1..Len(tags) :
          /\ tags[i][2].t = "list"
          /\ \E j \in 1..Len(tags[i][2].v) : tags[i][2].v[j].t = "str"
          /\ \E j \in 1..Len(tags[i][2].v) : tags[i][2].v[j].t # "str"

\* C8: a filter holding a value of False is rejected with TypeError and makes no
\* query clause.
C8_FalseRejected ==
    (Called /\ \E i \in 1..Len(tags) : tags[i][2] = [t |-> "bool", v |-> FALSE])
    => /\ pc = "raised"
       /\ exc = "TypeError"
       /\ query = None

\* C9: without a polygon and with one of north, south, east, west unset the call
\* raises the ValueError of the missing area and makes no request; with a
\* polygon the area is the polygon's bounds, whatever north, south, east and
\* west are.
C9_AreaFromPolygonOrBox ==
    Called =>
        /\ (polygon = None /\ (north = None \/ south = None \/ east = None \/ west = None))
           => /\ pc = "raised"
              /\ exc = "ValueError"
              /\ raised_in = "osm_poi_download"
              /\ requests = 0
              /\ query = None
        /\ polygon # None
           => /\ ~(exc = "ValueError" /\ raised_in = "osm_poi_download")
              /\ ~InvalidFilter(tags) =>
                    /\ query # None
                    /\ requests = 1
                    /\ \A c \in 1..Len(Get(query)) :
                           Get(query)[c].bbox =
                              <<Fmt6(Get(polygon).miny), Fmt6(Get(polygon).minx),
                                Fmt6(Get(polygon).maxy), Fmt6(Get(polygon).maxx)>>

\* a call without polygon and with only some of north, south, east, west has raised
C9_Witness ==
    /\ pc = "raised"
    /\ exc = "ValueError"
    /\ polygon = None
    /\ north # None
    /\ west = None

-----------------------------------------------------------------------------
(* Properties of a failed relation, of the nodes, and of the order of relations *)

\* the exception that the pass over the relation at idx catches at line 382
CaughtAtRelation ==
    ParseOneRelation(relations[idx], osm_way_df, gdf_relations, poi_ways # {}).caught

\* C11: when the pass over a relation raises at any step, the removal of the
\* member ways from the way table included, the relation has no row in the
\* relation table, whose rows are the relation rows of the table returned, and
\* the way table has the same rows after the pass as before it.
C11_FailedRelationLeavesNoTrace ==
    [][(AtRelation /\ CaughtAtRelation # "none")
          => /\ RelationRows(gdf_relations', relations[idx].id) = {}
             /\ osm_way_df' = osm_way_df]_vars

\* the row of a node element
NodeRowOf(e) == Row(e.id, "node", Point(e.lon, e.lat), <<>>, <<>>, e.tags)

NodeRows(table) == {r \in table : r.element_type = "node"}

Perms(n) == {f \in [1..n -> 1..n] : \A i, j \in 1..n : i # j => f[i] # f[j]}

Reordered(rels, f) == [i \in 1..Len(rels) |-> rels[f[i]]]

\* what a returned table yields: the standalone way rows, and the relation rows
\* with their geometries
Yield(table) ==
    [ways |-> {r \in table : r.element_type = "way"},
     rels |-> {[osmid |-> r.osmid, geometry |-> r.geometry] :
                  r \in {x \in table : x.element_type = "relation"}}]

\* the table that the passes over the relations made is the table of the loop
LoopIsTheSequenceOfPasses ==
    pc = "combine" => osm_way_df = parse_osm_relations(relations, poi_ways)

\* C13: the table parse_osm_relations returned for multipolygon relations has
\* the same standalone way rows, and the same relation rows with the same
\* geometries, as the table it returns for the same relations in any other
\* order, relations that share a member way included.
C13_OrderIndependent ==
    (/\ pc = "combine"
     /\ \A i \in 1..Len(relations) : IsMultipolygon(relations[i]))
    => \A f \in Perms(Len(relations)) :
          Yield(parse_osm_relations(Reordered(relations, f), poi_ways)) = Yield(osm_way_df)

====
